---- MODULE Spec2Model ----
(***************************************************************************)
(* Event ingestion of newsletter-ai-agent: the scrape adapter              *)
(* (app/services/luma_scraper.py, LumaScraper) and the REST adapter        *)
(* (app/services/luma_client.py, LumaClient).                              *)
(*                                                                         *)
(* One get_events call is in progress at a time; calls follow one another  *)
(* without end on adapter instances that live as long as the process,      *)
(* together with what outlives a call: each instance's requests.Session    *)
(* and the file debug_response.html in the working directory.              *)
(*                                                                         *)
(* Strings whose characters matter (cities, venues, hrefs) are sequences   *)
(* of one-character strings.  Timestamps are whole hours.                  *)
(***************************************************************************)
EXTENDS Integers, Sequences, FiniteSets, TLC

\* ------------------------------------------------------------ bounds
\* longest page (cards) or response array (items) the remote side sends
MaxCards == 2

\* ------------------------------------------------------------ optional values
Absent == [st |-> "absent"]
JNull == [st |-> "null"]
Val(v) == [st |-> "val", v |-> v]
Has(o) == o.st = "val"

\* ------------------------------------------------------------ strings
UpperAlpha == <<"A","B","C","D","E","F","G","H","I","J","K","L","M",
                "N","O","P","Q","R","S","T","U","V","W","X","Y","Z">>
LowerAlpha == <<"a","b","c","d","e","f","g","h","i","j","k","l","m",
                "n","o","p","q","r","s","t","u","v","w","x","y","z">>

\* str.lower() on one character
LowerChar(c) ==
  IF \E i \in 1..Len(UpperAlpha) : UpperAlpha[i] = c
  THEN LowerAlpha[CHOOSE i \in 1..Len(UpperAlpha) : UpperAlpha[i] = c]
  ELSE c

\* str.lower()
StrLower(s) == [i \in 1..Len(s) |-> LowerChar(s[i])]

\* `k in s` on strings
StrContains(s, k) ==
  \E i \in 0..(Len(s) - Len(k)) : SubSeq(s, i + 1, i + Len(k)) = k

\* str.strip(): leading and trailing blanks removed
RECURSIVE LStrip(_)
LStrip(s) == IF s # <<>> /\ Head(s) = " " THEN LStrip(Tail(s)) ELSE s
RECURSIVE RStrip(_)
RStrip(s) ==
  IF s # <<>> /\ s[Len(s)] = " " THEN RStrip(SubSeq(s, 1, Len(s) - 1)) ELSE s
StrStrip(s) == RStrip(LStrip(s))

\* s.split('/')[-1]: what follows the last '/', the whole string without one
RECURSIVE LastSegment(_)
LastSegment(s) ==
  IF s = <<>> THEN <<>>
  ELSE IF s[Len(s)] = "/" THEN <<>>
  ELSE LastSegment(SubSeq(s, 1, Len(s) - 1)) \o <<s[Len(s)]>>

\* ------------------------------------------------------------ timestamps
\* A timestamp string of the source: ISO text with hour `wall` and UTC offset
\* `off` (hours; Absent = no offset written), free text that is no ISO
\* timestamp, or the empty string.
IsoStr(wall, off) == [fmt |-> "iso", wall |-> wall, off |-> off]
FreeText == [fmt |-> "text", wall |-> 0, off |-> Absent]
EmptyStr == [fmt |-> "empty", wall |-> 0, off |-> Absent]

\* a datetime: hour on the wall clock and tzinfo (Absent = naive)
DateTime(wall, tz) == [wall |-> wall, tz |-> tz]
UTC == Val(0)

\* datetime.fromisoformat: the datetime written, ValueError for anything else
FromIsoFormat(s) ==
  IF s.fmt = "iso" THEN [ok |-> TRUE, dt |-> DateTime(s.wall, s.off)]
  ELSE [ok |-> FALSE, dt |-> DateTime(0, Absent)]

\* datetime.replace(tzinfo=timezone.utc): the zone is relabelled, the wall
\* clock is kept
ReplaceTzUtc(dt) == DateTime(dt.wall, UTC)

\* the instant a datetime denotes, in hours UTC (a naive one read as UTC)
Instant(dt) == IF Has(dt.tz) THEN dt.wall - dt.tz.v ELSE dt.wall

\* ------------------------------------------------------------ canonical event
Placeholder == "No description available"
TBA == <<"T","B","A">>
SourceTag == <<"l","u","m","a","_">>

\* Event(...) with its Location: construction fails (ValidationError) when
\* title, start_time or url is missing; description and venue fall back to
\* their defaults; every other field is stored as given.
EventNew(f) ==
  IF ~Has(f.title) \/ ~Has(f.start_time) \/ ~Has(f.url)
  THEN [ok |-> FALSE, ev |-> Absent]
  ELSE [ok |-> TRUE,
        ev |-> Val([id |-> f.id,
                    title |-> f.title.v,
                    description |-> IF Has(f.description) THEN f.description.v
                                    ELSE Placeholder,
                    start_time |-> f.start_time.v,
                    end_time |-> f.end_time,
                    city |-> f.city,
                    venue |-> IF Has(f.venue) THEN f.venue.v ELSE TBA,
                    url |-> f.url.v,
                    is_virtual |-> f.is_virtual,
                    source |-> "luma"])]

\* first of the alternatives that is there (Python's `a or b` on elements)
FirstOf(a, b) == IF Has(a) THEN a ELSE b

\* ------------------------------------------------------------ scrape adapter
BaseUrl == <<"h","t","t","p","s",":","/","/","l","u",".","m","a">>
SchemeSep == <<":","/","/">>

\* urljoin(BASE_URL, href) for the references a card carries: an empty
\* reference gives the base, a reference with a scheme is kept, "//host..."
\* takes the base's scheme (ValueError when the host opens a '[' it never
\* closes), "/path" and "path" are put under the base's host
UrlJoin(base, href) ==
  IF href = <<>> THEN [ok |-> TRUE, url |-> base]
  ELSE IF StrContains(href, SchemeSep) THEN [ok |-> TRUE, url |-> href]
  ELSE IF Len(href) >= 2 /\ SubSeq(href, 1, 2) = <<"/","/">>
    THEN IF StrContains(href, <<"[">>) /\ ~StrContains(href, <<"]">>)
         THEN [ok |-> FALSE, url |-> <<>>]
         ELSE [ok |-> TRUE, url |-> <<"h","t","t","p","s",":">> \o href]
  ELSE IF Head(href) = "/" THEN [ok |-> TRUE, url |-> base \o href]
  ELSE [ok |-> TRUE, url |-> base \o <<"/">> \o href]

VirtualKeywords ==
  << <<"v","i","r","t","u","a","l">>, <<"o","n","l","i","n","e">>,
     <<"z","o","o","m">>, <<"r","e","m","o","t","e">>,
     <<"w","e","b","i","n","a","r">> >>

\* LumaScraper._check_if_virtual
CheckIfVirtual(venue) ==
  \E i \in 1..Len(VirtualKeywords) :
    StrContains(StrLower(venue), VirtualKeywords[i])

\* TitleElem without its fallbacks: only h3 is looked for
TitleElemOnlyH3(card) == card.h3

\* the title element: h3, then h2, then a class holding "title"
TitleElem(card) == FirstOf(card.h3, FirstOf(card.h2, card.titleCls))

\* the description element: p, then a class holding "description"
DescElem(card) == FirstOf(card.p, card.descCls)

\* the date element: time, then a class holding "date"
DateElem(card) == FirstOf(card.timeEl, card.dateCls)

\* datetime attribute, then data-date attribute, then the element's text; an
\* attribute that is missing or empty is passed over
DateStr(e) ==
  IF Has(e.datetime) /\ e.datetime.v.fmt # "empty" THEN e.datetime.v
  ELSE IF Has(e.datadate) /\ e.datadate.v.fmt # "empty" THEN e.datadate.v
  ELSE e.text

\* CardStartTime with the fetch time taken for every card
CardStartTimeAlwaysNow(date_str, now) == DateTime(now, UTC)

\* start_time of a card: the parsed timestamp relabelled UTC, the fetch time
\* when the string does not parse
CardStartTime(date_str, now) ==
  IF FromIsoFormat(date_str).ok
  THEN ReplaceTzUtc(FromIsoFormat(date_str).dt)
  ELSE DateTime(now, UTC)

\* venue of a card: "TBA" without a location element, else the venue
\* element's text, else the location element's text
CardVenue(card) ==
  IF ~Has(card.loc) THEN TBA
  ELSE IF Has(card.loc.v.venue) THEN StrStrip(card.loc.v.venue.v)
  ELSE StrStrip(card.loc.v.text)

\* CardDescription with the empty string for a card without the element
CardDescriptionEmpty(card) ==
  IF Has(DescElem(card)) THEN DescElem(card) ELSE Val("")

\* the description text of a card, the placeholder without the element
CardDescription(card) ==
  IF Has(DescElem(card)) THEN DescElem(card) ELSE Val(Placeholder)

\* whether the card has its date element (the card is given up without one)
CardHasDate(card) == Has(DateElem(card))

Raised == [st |-> "raise"]

\* the try block of LumaScraper._parse_event_card: the event, Absent for
\* `return None`, Raised when a statement raises (urljoin's ValueError, the
\* model's ValidationError)
ParseEventCardBody(card, city, now) ==
  IF ~Has(TitleElem(card)) THEN Absent
  ELSE IF ~Has(card.anchor) THEN Absent
  ELSE
    LET href == IF Has(card.anchor.v.href) THEN card.anchor.v.href.v ELSE <<>>
        joined == UrlJoin(BaseUrl, href)
    IN
    IF ~joined.ok THEN Raised
    ELSE IF ~CardHasDate(card) THEN Absent
    ELSE
      LET venue == CardVenue(card)
          made == EventNew([id |-> SourceTag \o LastSegment(joined.url),
                            title |-> TitleElem(card),
                            description |-> CardDescription(card),
                            start_time |->
                              Val(CardStartTime(DateStr(DateElem(card).v), now)),
                            end_time |-> Absent,
                            city |-> city,
                            venue |-> Val(venue),
                            url |-> Val(joined.url),
                            is_virtual |-> CheckIfVirtual(venue)])
      IN IF made.ok THEN made.ev ELSE Raised

\* LumaScraper._parse_event_card: `except Exception` turns a raise into None
ParseEventCard(card, city, now) ==
  IF ParseEventCardBody(card, city, now).st = "raise" THEN Absent
  ELSE ParseEventCardBody(card, city, now)

\* soup.find_all(...) for one selection strategy: the divs of the page, in
\* document order, that the strategy matches.  A div is matched by its
\* data-testid, by a class holding "event-card" or by a class holding "event"
\* (a class holding "event-card" holds "event" too).
FindAll(page, strategy) ==
  SelectSeq(page, LAMBDA d :
    CASE strategy = 1 -> d.testid
      [] strategy = 2 -> d.cls = "event-card"
      [] OTHER -> d.cls \in {"event-card", "event"})

\* FindEventCards taking every div that any of the strategies matches
FindEventCardsAnyStrategy(page) == FindAll(page, 1) \o FindAll(page, 2) \o FindAll(page, 3)

\* the candidate cards: the first strategy that matches anything
FindEventCards(page) ==
  IF FindAll(page, 1) # <<>> THEN FindAll(page, 1)
  ELSE IF FindAll(page, 2) # <<>> THEN FindAll(page, 2)
  ELSE FindAll(page, 3)

\* ScrapeStep putting the event in front of the list instead of at its end
ScrapeStepPrepend(events, card, city, now) ==
  IF Has(ParseEventCard(card, city, now))
  THEN <<ParseEventCard(card, city, now).v>> \o events
  ELSE events

\* one turn of the loop over the cards: the event is appended when the card
\* gives one, the card is passed over when it gives None
ScrapeStep(events, card, city, now) ==
  IF Has(ParseEventCard(card, city, now))
  THEN Append(events, ParseEventCard(card, city, now).v)
  ELSE events

\* ScrapeLoop leaving the loop at the first card that gives no event (a
\* `break` where the code has `continue`)
RECURSIVE ScrapeLoopBreak(_, _, _, _)
ScrapeLoopBreak(events, cards, city, now) ==
  IF cards = <<>> THEN events
  ELSE IF ~Has(ParseEventCard(Head(cards), city, now)) THEN events
  ELSE ScrapeLoopBreak(ScrapeStep(events, Head(cards), city, now),
                       Tail(cards), city, now)

\* the loop over the candidate cards, `events` as it stands at the end
RECURSIVE ScrapeLoop(_, _, _, _)
ScrapeLoop(events, cards, city, now) ==
  IF cards = <<>> THEN events
  ELSE ScrapeLoop(ScrapeStep(events, Head(cards), city, now),
                  Tail(cards), city, now)

\* ------------------------------------------------------------ REST adapter
NYC == <<"N","Y","C">>
NewYork == <<"N","e","w"," ","Y","o","r","k">>
Boston == <<"B","o","s","t","o","n">>

\* city_calendars of LumaClient._get_calendar_id
CityCalendars == (NYC :> "nyc") @@ (NewYork :> "nyc") @@ (Boston :> "boston")

\* LumaClient._get_calendar_id: the calendar of the stripped city name,
\* Raised (LumaClientException) for a city the table does not hold
GetCalendarId(city) ==
  IF StrStrip(city) \in DOMAIN CityCalendars
  THEN Val(CityCalendars[StrStrip(city)])
  ELSE Raised

\* d[key]: the value stored (None for null), KeyError without the key
Subscript(field) == IF field.st = "absent" THEN Raised ELSE field

\* d.get(key, default): the default only when the key is missing
GetOr(field, default) == IF field.st = "absent" THEN default ELSE field

\* datetime.fromisoformat(x).replace(tzinfo=utc) on a payload value: Raised
\* for null (TypeError) and for text that is no timestamp (ValueError)
RestTime(field) ==
  IF ~Has(field) THEN Raised
  ELSE IF ~FromIsoFormat(field.v).ok THEN Raised
  ELSE Val(ReplaceTzUtc(FromIsoFormat(field.v).dt))

\* venue handed to Location: "TBA" without "location" or without its "name",
\* AttributeError when "location" is null
RestVenue(item) ==
  IF item.location.st = "null" THEN Raised
  ELSE IF item.location.st = "absent" THEN Val(TBA)
  ELSE GetOr(item.location.v.name, Val(TBA))

\* is_virtual handed to Event: the payload's flag, False without one
RestIsVirtual(item) ==
  IF Has(item.is_virtual) THEN item.is_virtual.v ELSE FALSE

\* description handed to Event: the payload's value (None for null), the
\* placeholder without the key
RestDescription(item) == GetOr(item.description, Val(Placeholder))

\* the try block of LumaClient._convert_to_event
ConvertToEventBody(item, city) ==
  IF RestVenue(item).st = "raise" THEN Raised
  ELSE IF Subscript(item.id).st = "raise" THEN Raised
  ELSE IF Subscript(item.title).st = "raise" THEN Raised
  ELSE IF Subscript(item.start_time).st = "raise" THEN Raised
  ELSE IF RestTime(item.start_time).st = "raise" THEN Raised
  ELSE IF Has(item.end_time) /\ item.end_time.v.fmt # "empty"
          /\ RestTime(item.end_time).st = "raise" THEN Raised
  ELSE IF Subscript(item.url).st = "raise" THEN Raised
  ELSE
    LET made == EventNew([id |-> SourceTag \o
                                 (IF Has(item.id) THEN item.id.v
                                  ELSE <<"N","o","n","e">>),
                          title |-> item.title,
                          description |-> RestDescription(item),
                          start_time |-> RestTime(item.start_time),
                          end_time |-> IF Has(item.end_time)
                                          /\ item.end_time.v.fmt # "empty"
                                       THEN RestTime(item.end_time)
                                       ELSE Absent,
                          city |-> city,
                          venue |-> RestVenue(item),
                          url |-> item.url,
                          is_virtual |-> RestIsVirtual(item)])
    IN IF made.ok THEN made.ev ELSE Raised

\* LumaClient._convert_to_event: `except Exception` turns a raise into None
ConvertToEvent(item, city) ==
  IF ConvertToEventBody(item, city).st = "raise" THEN Absent
  ELSE ConvertToEventBody(item, city)

\* one turn of the loop over the response items
RestStep(events, item, city) ==
  IF Has(ConvertToEvent(item, city))
  THEN Append(events, ConvertToEvent(item, city).v)
  ELSE events

\* the loop over events_data.get("events", [])
RECURSIVE RestLoop(_, _, _)
RestLoop(events, items, city) ==
  IF items = <<>> THEN events
  ELSE RestLoop(RestStep(events, Head(items), city), Tail(items), city)

\* ------------------------------------------------------------ inputs
\* the cities a caller asks for: a listed city with blanks around it, and
\* the city of tests/test_scraper.py, which the table does not list
BostonPadded == <<" ","B","o","s","t","o","n"," ">>
LowerNewYork == <<"n","e","w"," ","y","o","r","k">>
Cities == {BostonPadded, LowerNewYork}

\* the hour datetime.now(timezone.utc) gives during a call
FetchTimes == {20}

ZoomRoom == <<"Z","o","o","m"," ","W","e","b","i","n","a","r"," ","R","o","o","m">>
MainSt == <<"1","2","3"," ","M","a","i","n"," ","S","t">>
OnlinePadded == <<" ","O","N","L","I","N","E"," ">>

DateAttrs(datetime, datadate, text) ==
  [datetime |-> datetime, datadate |-> datadate, text |-> text]

\* a div of the search page with everything a card can carry
CardFull ==
  [testid |-> TRUE, cls |-> "other",
   h3 |-> Val("AI Meetup"), h2 |-> Absent, titleCls |-> Absent,
   p |-> Val("Talks and demos"), descCls |-> Absent,
   anchor |-> Val([href |-> Val(<<"/","e","/","a","i">>)]),
   timeEl |-> Val(DateAttrs(Val(IsoStr(10, Val(0))), Absent, FreeText)),
   dateCls |-> Absent,
   loc |-> Val([venue |-> Val(ZoomRoom), text |-> ZoomRoom])]
CardNoTitle == [CardFull EXCEPT !.h3 = Absent]
CardNoLink == [CardFull EXCEPT !.anchor = Absent]
CardNoDate == [CardFull EXCEPT !.timeEl = Absent]
\* a card of another event: its date is free text, and its link has another
\* path that ends in the same segment as CardFull's
CardBadDate ==
  [CardFull EXCEPT !.h3 = Absent, !.h2 = Val("Founders Dinner"),
                   !.timeEl = Val(DateAttrs(Absent, Absent, FreeText)),
                   !.p = Absent, !.loc = Absent,
                   !.anchor = Val([href |-> Val(<<"/","x","/","a","i">>)])]
CardBadHref ==
  [CardFull EXCEPT !.anchor = Val([href |-> Val(<<"/","/","[">>)])]
CardByClass ==
  [CardFull EXCEPT !.testid = FALSE, !.cls = "event-card",
                   !.p = Absent, !.descCls = Val("Pitch night"),
                   !.timeEl = Absent,
                   !.dateCls = Val(DateAttrs(Val(EmptyStr),
                                             Val(IsoStr(14, Absent)), FreeText)),
                   !.anchor = Val([href |-> Absent]),
                   !.loc = Val([venue |-> Val(OnlinePadded), text |-> MainSt])]
CardByLooseClass ==
  [CardFull EXCEPT !.testid = FALSE, !.cls = "event",
                   !.h3 = Absent, !.titleCls = Val("Web3 Summit"),
                   !.timeEl = Val(DateAttrs(Val(IsoStr(10, Val(-4))), Absent,
                                            EmptyStr)),
                   !.loc = Val([venue |-> Absent, text |-> MainSt]),
                   !.anchor = Val([href |-> Val(<<"w","3">>)])]

\* a div that is no event card: no data-testid, no class holding "event"
DivOther == [CardFull EXCEPT !.testid = FALSE]

CardPool ==
  {CardFull, CardNoTitle, CardNoLink, CardNoDate, CardBadDate, CardBadHref,
   CardByClass, CardByLooseClass, DivOther}

\* an item of the REST response array
ItemFull ==
  [id |-> Val(<<"e","1">>), title |-> Val("AI Meetup"),
   description |-> Val("Talks and demos"),
   start_time |-> Val(IsoStr(14, Val(0))), end_time |-> Absent,
   location |-> Val([name |-> Val(ZoomRoom)]),
   url |-> Val(<<"h","t","t","p","s",":","/","/","l","u",".","m","a","/","e","1">>),
   is_virtual |-> Absent]
ItemNoDesc ==
  [ItemFull EXCEPT !.id = Val(<<"e","2">>), !.description = Absent,
                   !.location = Absent, !.is_virtual = Val(TRUE),
                   !.end_time = Val(IsoStr(14, Val(0)))]
ItemNullDesc ==
  [ItemFull EXCEPT !.id = Val(<<"e","3">>), !.description = JNull,
                   !.start_time = Val(IsoStr(10, Val(-4))),
                   !.location = Val([name |-> Val(MainSt)]),
                   !.is_virtual = Val(FALSE)]
ItemNoTitle == [ItemFull EXCEPT !.title = Absent]
ItemBadTime == [ItemFull EXCEPT !.start_time = Val(FreeText)]
ItemBadEnd == [ItemFull EXCEPT !.end_time = Val(FreeText)]
ItemNullLocation == [ItemFull EXCEPT !.location = JNull]

ItemPool ==
  {ItemFull, ItemNoDesc, ItemNullDesc, ItemNoTitle, ItemBadTime, ItemBadEnd,
   ItemNullLocation}

\* sequences over S of length at most n
SeqsUpTo(S, n) == UNION {[1..k -> S] : k \in 0..n}

\* the search pages the site may answer with
Pages == SeqsUpTo(CardPool, MaxCards)

\* the bodies the API may answer with: text that is no JSON, an object
\* without "events", an object with its "events" array
RestBodies ==
  {[json |-> FALSE, events |-> Absent], [json |-> TRUE, events |-> Absent]}
  \cup {[json |-> TRUE, events |-> Val(items)] :
          items \in SeqsUpTo(ItemPool, MaxCards)}

\* ------------------------------------------------------------ state
\* adapter instances of the process: two LumaScraper, one LumaClient
Instances == {"scraper1", "scraper2", "client1"}
AdapterOf(inst) ==
  CASE inst = "client1" -> "rest"
    [] inst \in {"scraper1", "scraper2"} -> "scrape"
    [] OTHER -> "none"

VARIABLES
  pc,         \* where the current get_events call stands
  call,       \* its instance and arguments
  requests,   \* HTTP requests it has issued
  sent,       \* whether its request carried cookies an earlier call received
  silent,     \* whether the server never answers the request that is out
  response,   \* the 2xx response it received
  fetchTime,  \* datetime.now() while it parsed
  ret,        \* what it gave back: a list or an exception
  jar,        \* self.session of each instance: whether a response has left
              \* its cookies in it
  debugFile   \* debug_response.html: "none" before it is first written,
              \* "current" with the response text of the call in progress,
              \* "earlier" with that of a call that has returned

vars ==
  <<pc, call, requests, sent, silent, response, fetchTime, ret, jar,
    debugFile>>

NoCall == [inst |-> "none", city |-> <<>>]
NoRet == [st |-> "none", events |-> <<>>, err |-> Absent]
Returned(events) == [st |-> "returned", events |-> events, err |-> Absent]

\* the exception get_events raises: the adapter's exception type, the except
\* clause that built it and what was caught
Failure(adapter, clause, cause) ==
  [st |-> "raised", events |-> <<>>,
   err |-> Val([type |-> IF adapter = "rest" THEN "LumaClientException"
                         ELSE "LumaScraperException",
                clause |-> clause, cause |-> cause])]

\* LumaScraper.__init__, LumaClient.__init__: every instance has its session,
\* with no cookies yet; no call has been made
Init ==
  /\ pc = "idle"
  /\ call = NoCall
  /\ requests = 0
  /\ sent = FALSE
  /\ silent = FALSE
  /\ response = Absent
  /\ fetchTime = 0
  /\ ret = NoRet
  /\ jar = [i \in Instances |-> FALSE]
  /\ debugFile = "none"

\* get_events(city, category) is entered on an instance
Begin(inst, city) ==
  /\ pc = "idle"
  /\ pc' = "begun"
  /\ call' = [inst |-> inst, city |-> city]
  /\ UNCHANGED <<requests, sent, silent, response, fetchTime, ret, jar, debugFile>>

\* LumaClient.get_events: calendar_id = self._get_calendar_id(city); the
\* exception of an unlisted city is caught by `except Exception`
ResolveCity ==
  /\ pc = "begun"
  /\ AdapterOf(call.inst) = "rest"
  /\ IF Has(GetCalendarId(call.city))
     THEN /\ pc' = "resolved"
          /\ ret' = ret
     ELSE /\ pc' = "done"
          /\ ret' = Failure("rest", "Exception", "unsupported_city")
  /\ UNCHANGED <<call, requests, sent, silent, response, fetchTime, jar, debugFile>>

\* ReadyToSend with the GET placed before the city lookup
ReadyToSendBeforeLookup == pc = "begun"

\* whether the call has reached its self.session.get(...)
ReadyToSend ==
  \/ AdapterOf(call.inst) = "scrape" /\ pc = "begun"
  \/ AdapterOf(call.inst) = "rest" /\ pc = "resolved"

\* the timeout= argument of the adapter's self.session.get(...): 30 seconds in
\* LumaScraper, none in LumaClient (requests then waits without limit)
ScraperTimeout == 30
ClientTimeout == Absent
GetTimeout(adapter) ==
  IF adapter = "scrape" THEN Val(ScraperTimeout) ELSE ClientTimeout

\* self.session.get(...) sends the request, with the cookies of the session;
\* the server answers it or stays silent for ever
SendRequest(quiet) ==
  /\ ReadyToSend
  /\ pc' = "waiting"
  /\ requests' = requests + 1
  /\ sent' = jar[call.inst]
  /\ silent' = quiet
  /\ UNCHANGED <<call, response, fetchTime, ret, jar, debugFile>>

\* TransportFailure with the request tried again instead of the error raised
TransportFailureRetry ==
  /\ pc = "waiting"
  /\ ~silent
  /\ pc' = IF AdapterOf(call.inst) = "rest" THEN "resolved" ELSE "begun"
  /\ UNCHANGED <<call, requests, sent, silent, response, fetchTime, ret, jar, debugFile>>

\* self.session.get(...) has waited for its timeout without an answer and
\* raises requests.Timeout, a RequestException
RequestTimedOut ==
  /\ pc = "waiting"
  /\ silent
  /\ Has(GetTimeout(AdapterOf(call.inst)))
  /\ pc' = "done"
  /\ silent' = FALSE
  /\ ret' = Failure(AdapterOf(call.inst), "RequestException", "timeout")
  /\ UNCHANGED <<call, requests, sent, response, fetchTime, jar, debugFile>>

\* self.session.get(...) raises a requests.RequestException (connection
\* refused or reset)
TransportFailure ==
  /\ pc = "waiting"
  /\ ~silent
  /\ pc' = "done"
  /\ ret' = Failure(AdapterOf(call.inst), "RequestException", "transport")
  /\ UNCHANGED <<call, requests, sent, silent, response, fetchTime, jar, debugFile>>

\* self.session.get(...) returns a 4xx or 5xx response, whose cookies the
\* session keeps; response.raise_for_status() raises HTTPError
HttpError(status) ==
  /\ pc = "waiting"
  /\ ~silent
  /\ pc' = "done"
  /\ jar' = [jar EXCEPT ![call.inst] = TRUE]
  /\ ret' = Failure(AdapterOf(call.inst), "RequestException", "http_status")
  /\ UNCHANGED <<call, requests, sent, silent, response, fetchTime, debugFile>>

\* self.session.get(...) returns a 2xx response, whose cookies the session
\* keeps; response.raise_for_status() passes
ReceiveOk(body) ==
  /\ pc = "waiting"
  /\ ~silent
  /\ pc' = "received"
  /\ jar' = [jar EXCEPT ![call.inst] = TRUE]
  /\ response' = Val(body)
  /\ UNCHANGED <<call, requests, sent, silent, fetchTime, ret, debugFile>>

\* LumaScraper.get_events: open("debug_response.html", "w") and write; an
\* OSError (directory not writable, disk full) is caught by `except Exception`
SaveDebugResponse(writable) ==
  /\ pc = "received"
  /\ AdapterOf(call.inst) = "scrape"
  /\ IF writable
     THEN /\ pc' = "saved"
          /\ debugFile' = "current"
          /\ ret' = ret
     ELSE /\ pc' = "done"
          /\ debugFile' = debugFile
          /\ ret' = Failure("scrape", "Exception", "debug_file")
  /\ UNCHANGED <<call, requests, sent, silent, response, fetchTime, jar>>

\* LumaScraper.get_events: the candidate cards are found and parsed one by
\* one; the list is returned
ParseCards(now) ==
  /\ pc = "saved"
  /\ pc' = "done"
  /\ fetchTime' = now
  /\ ret' = Returned(ScrapeLoop(<<>>, FindEventCards(response.v), call.city, now))
  /\ UNCHANGED <<call, requests, sent, silent, response, jar, debugFile>>

\* LumaClient.get_events: response.json(), whose error is caught by the
\* except clauses; the items are converted one by one; the list is returned
ConvertItems ==
  /\ pc = "received"
  /\ AdapterOf(call.inst) = "rest"
  /\ pc' = "done"
  /\ ret' = IF ~response.v.json
            THEN Failure("rest", "RequestException", "json")
            ELSE Returned(RestLoop(<<>>, GetOr(response.v.events, Val(<<>>)).v,
                                   call.city))
  /\ UNCHANGED <<call, requests, sent, silent, response, fetchTime, jar, debugFile>>

\* the caller has its list or its exception; the call's locals are gone, the
\* sessions and the file stay; the next call may begin
Finish ==
  /\ pc = "done"
  /\ pc' = "idle"
  /\ call' = NoCall
  /\ requests' = 0
  /\ sent' = FALSE
  /\ response' = Absent
  /\ fetchTime' = 0
  /\ ret' = NoRet
  /\ debugFile' = IF debugFile = "current" THEN "earlier" ELSE debugFile
  /\ UNCHANGED <<jar, silent>>

Next ==
  \/ \E inst \in Instances, city \in Cities : Begin(inst, city)
  \/ ResolveCity
  \/ \E quiet \in BOOLEAN : SendRequest(quiet)
  \/ RequestTimedOut
  \/ TransportFailure
  \/ \E status \in {404, 503} : HttpError(status)
  \/ \E body \in Pages : AdapterOf(call.inst) = "scrape" /\ ReceiveOk(body)
  \/ \E body \in RestBodies : AdapterOf(call.inst) = "rest" /\ ReceiveOk(body)
  \/ \E writable \in BOOLEAN : SaveDebugResponse(writable)
  \/ \E now \in FetchTimes : ParseCards(now)
  \/ ConvertItems
  \/ Finish

Spec == Init /\ [][Next]_vars

\* ------------------------------------------------------------ properties
IsScrape == AdapterOf(call.inst) = "scrape"
IsRest == AdapterOf(call.inst) = "rest"

\* the scrape call has returned its list
ScrapeReturned == pc = "done" /\ IsScrape /\ ret.st = "returned"

\* the candidate cards of the page received
Candidates == FindEventCards(response.v)

\* what the markup of a card lacks
LacksTitle(c) == ~Has(c.h3) /\ ~Has(c.h2) /\ ~Has(c.titleCls)
LacksLink(c) == ~Has(c.anchor)
LacksDate(c) == ~Has(c.timeEl) /\ ~Has(c.dateCls)
HrefOf(c) == IF Has(c.anchor.v.href) THEN c.anchor.v.href.v ELSE <<>>
LinkUnresolvable(c) == ~LacksLink(c) /\ ~UrlJoin(BaseUrl, HrefOf(c)).ok

\* how many elements of seq satisfy Test
CountOf(seq, Test(_)) == Cardinality({i \in 1..Len(seq) : Test(seq[i])})

\* the cards that have all a card needs to become an event
CardMaps(c) ==
  ~LacksTitle(c) /\ ~LacksLink(c) /\ ~LacksDate(c) /\ ~LinkUnresolvable(c)
KeptCards == SelectSeq(Candidates, CardMaps)

\* C1 as stated: the scrape adapter returns as many events as candidate cards
\* found minus the cards lacking a title element or an anchor element.
C1_CountTitleLinkOnly ==
  ScrapeReturned =>
    Len(ret.events) =
      Len(Candidates)
      - CountOf(Candidates, LAMBDA c : LacksTitle(c) \/ LacksLink(c))

\* C1 amended: the scrape adapter returns no event for a card lacking a title
\* element, an anchor element or a date element, or whose link cannot be
\* resolved against the base URL; the number of events returned is the number
\* of candidate cards minus the number of those cards, and the events are
\* those of the remaining cards, title by title.
C1_CountOfMappableCards ==
  ScrapeReturned =>
    /\ Len(ret.events) =
         Len(Candidates)
         - CountOf(Candidates, LAMBDA c : LacksTitle(c) \/ LacksLink(c)
                                           \/ LacksDate(c) \/ LinkUnresolvable(c))
    /\ Len(ret.events) = Len(KeptCards)
    /\ \A i \in 1..Len(ret.events) :
         ret.events[i].title = FirstOf(KeptCards[i].h3,
                                 FirstOf(KeptCards[i].h2, KeptCards[i].titleCls)).v

\* a page with a card that has everything, a card without title and a card
\* without date element has been parsed
C1_Witness ==
  /\ ScrapeReturned
  /\ \E i, j \in 1..Len(Candidates) :
       /\ LacksDate(Candidates[i]) /\ ~LacksTitle(Candidates[i])
       /\ ~LacksLink(Candidates[i])
       /\ CardMaps(Candidates[j])
  /\ Len(ret.events) >= 1

\* the city of the call is one the static table does not resolve
CityUnresolved == StrStrip(call.city) \notin {NYC, NewYork, Boston}

\* C2: a LumaClient.get_events call with a city the table does not resolve
\* issues no HTTP request at any point, and it ends with the exception of the
\* unsupported city.
C2_UnresolvedCityNoRequest ==
  IsRest /\ CityUnresolved =>
    /\ requests = 0
    /\ pc \in {"begun", "done"}
    /\ pc = "done" =>
         /\ ret.st = "raised"
         /\ ret.err.v.type = "LumaClientException"
         /\ ret.err.v.cause = "unsupported_city"

\* a REST call with an unlisted city has ended
C2_Witness ==
  pc = "done" /\ IsRest /\ CityUnresolved /\ ret.st = "raised"

\* C3: a get_events call issues at most one HTTP request, the scrape adapter
\* exactly one by the time it ends; a call that ends after a transport failure
\* or a non-2xx response has raised its error with that one request.
C3_OneRequestNoRetry ==
  /\ requests <= 1
  /\ pc \in {"waiting", "received", "saved"} => requests = 1
  /\ pc = "done" /\ IsScrape => requests = 1
  /\ pc = "done" /\ ret.st = "raised"
       /\ ret.err.v.cause \in {"transport", "http_status", "timeout"} => requests = 1
  /\ pc = "done" /\ ret.st = "returned" => requests = 1

\* a call has ended with the error of a failed request
C3_Witness ==
  /\ pc = "done" /\ ret.st = "raised"
  /\ ret.err.v.cause \in {"transport", "http_status"}
  /\ requests = 1

\* the REST call has got its 2xx response, decoded it and ended
RestConverted == pc = "done" /\ IsRest /\ Has(response) /\ response.v.json

\* the items of the response array
Items == IF Has(response.v.events) THEN response.v.events.v ELSE <<>>

\* whether a timestamp string of the payload is an ISO timestamp
IsIso(field) == Has(field) /\ field.v.fmt = "iso"

\* the items that have all an item needs to become an event
ItemMaps(it) ==
  /\ it.location.st # "null"
  /\ Has(it.id) /\ Has(it.title) /\ Has(it.url)
  /\ IsIso(it.start_time)
  /\ it.end_time.st = "absent" \/ IsIso(it.end_time)
KeptItems == SelectSeq(Items, ItemMaps)

\* the scrape call has reached its loop over the cards and ended
ScrapeParsed == pc = "done" /\ IsScrape /\ debugFile = "current"

\* C4: once the response is there and the loop over its cards or items is
\* reached, a card or item that cannot be mapped is only left out: the call
\* returns its list, and the list holds the event of every other card or
\* item, link by link.
C4_BadItemOnlySkipped ==
  /\ ScrapeParsed =>
       /\ ret.st = "returned"
       /\ Len(ret.events) = Len(KeptCards)
       /\ \A i \in 1..Len(ret.events) :
            ret.events[i].url = UrlJoin(BaseUrl, HrefOf(KeptCards[i])).url
  /\ RestConverted =>
       /\ ret.st = "returned"
       /\ Len(ret.events) = Len(KeptItems)
       /\ \A i \in 1..Len(ret.events) :
            ret.events[i].id = SourceTag \o KeptItems[i].id.v

\* a page whose first card raises while it is mapped and whose second card
\* maps has been parsed
C4_Witness ==
  /\ ScrapeParsed
  /\ Len(Candidates) = 2
  /\ LinkUnresolvable(Candidates[1])
  /\ CardMaps(Candidates[2])
  /\ Len(ret.events) = 1

\* the timestamp string of a card that has its date element
CardDateStr(c) == DateStr(FirstOf(c.timeEl, c.dateCls).v)

\* C5: a card of the scrape adapter whose timestamp string does not parse is
\* returned with the fetch time as start_time; the other cards of the page
\* keep the hour their own timestamp string states.
C5_FetchTimeFallbackPerCard ==
  ScrapeReturned =>
    /\ Len(ret.events) = Len(KeptCards)
    /\ \A i \in 1..Len(ret.events) :
         IF CardDateStr(KeptCards[i]).fmt = "iso"
         THEN ret.events[i].start_time.wall = CardDateStr(KeptCards[i]).wall
         ELSE ret.events[i].start_time = DateTime(fetchTime, UTC)

\* a page with a card whose timestamp does not parse and a card whose
\* timestamp parses has given two events
C5_Witness ==
  /\ ScrapeReturned
  /\ Len(ret.events) = 2
  /\ \E i, j \in 1..2 :
       /\ CardDateStr(KeptCards[i]).fmt = "text"
       /\ CardDateStr(KeptCards[j]).fmt = "iso"
       /\ ret.events[i].start_time.wall = fetchTime
       /\ ret.events[j].start_time.wall # fetchTime

\* C6: the start_time of every event either adapter returns carries the UTC
\* zone and denotes the instant of the source timestamp, whatever offset the
\* source timestamp carries.
C6_StartTimeSameInstantUtc ==
  /\ ScrapeReturned =>
       \A i \in 1..Len(ret.events) :
         CardDateStr(KeptCards[i]).fmt = "iso" =>
           /\ ret.events[i].start_time.tz = UTC
           /\ Instant(ret.events[i].start_time) =
                Instant(DateTime(CardDateStr(KeptCards[i]).wall,
                                 CardDateStr(KeptCards[i]).off))
  /\ RestConverted =>
       \A i \in 1..Len(ret.events) :
         /\ ret.events[i].start_time.tz = UTC
         /\ Instant(ret.events[i].start_time) =
              Instant(DateTime(KeptItems[i].start_time.v.wall,
                               KeptItems[i].start_time.v.off))

\* whether a venue string holds one of the five keywords, whatever its case
HoldsVirtualKeyword(venue) ==
  \E k \in {<<"v","i","r","t","u","a","l">>, <<"o","n","l","i","n","e">>,
            <<"z","o","o","m">>, <<"r","e","m","o","t","e">>,
            <<"w","e","b","i","n","a","r">>} :
    StrContains(StrLower(venue), k)

\* C7: for every event either adapter returns, is_virtual is true exactly
\* when the event's venue holds one of the keywords virtual, online, zoom,
\* remote, webinar, whatever flag the source reports.
C7_IsVirtualFromVenue ==
  pc = "done" /\ ret.st = "returned" =>
    \A i \in 1..Len(ret.events) :
      ret.events[i].is_virtual = HoldsVirtualKeyword(ret.events[i].venue)

\* what carries no description
CardLacksDescription(c) == ~Has(c.p) /\ ~Has(c.descCls)
ItemLacksDescription(it) == it.description.st \in {"absent", "null"}

\* C8: a card or item that lacks only its description is in the result, with
\* the placeholder as description; the batch does not fail over it.
C8_PlaceholderDescription ==
  /\ ScrapeParsed =>
       /\ ret.st = "returned"
       /\ Len(ret.events) = Len(KeptCards)
       /\ \A i \in 1..Len(ret.events) :
            CardLacksDescription(KeptCards[i]) =>
              ret.events[i].description = Placeholder
  /\ RestConverted =>
       /\ ret.st = "returned"
       /\ Len(ret.events) = Len(KeptItems)
       /\ \A i \in 1..Len(ret.events) :
            ItemLacksDescription(KeptItems[i]) =>
              ret.events[i].description = Placeholder

\* a card without description element has been returned with the placeholder
C8_Witness ==
  /\ ScrapeParsed
  /\ \E i \in 1..Len(ret.events) :
       /\ CardLacksDescription(KeptCards[i])
       /\ ret.events[i].description = Placeholder

\* C9: a scrape call whose 2xx page holds no candidate card ends by returning
\* the empty list, whatever happens between the response and the return.
C9_EmptyPageReturnsEmptyList ==
  pc = "done" /\ IsScrape /\ Has(response) /\ Candidates = <<>> =>
    /\ ret.st = "returned"
    /\ ret.events = <<>>

\* C10: calls share nothing: no request carries what the response of another
\* call left in a session, and when a call has returned nothing it fetched or
\* received is kept, in a session or in a file.
C10_NoSharedState ==
  /\ ~sent
  /\ pc = "idle" => debugFile = "none" /\ \A inst \in Instances : ~jar[inst]

\* C11: every event id is the source tag followed by a native id, and two
\* events of one scrape result that were built from different resolved URLs
\* have different ids.
C11_DistinctUrlsDistinctIds ==
  ScrapeReturned =>
    \A i, j \in 1..Len(ret.events) :
      /\ SubSeq(ret.events[i].id, 1, Len(SourceTag)) = SourceTag
      /\ ret.events[i].url # ret.events[j].url =>
           ret.events[i].id # ret.events[j].id

\* the strategies of the selector chain that match some div of the page
MatchingStrategies(page) == {s \in 1..3 : FindAll(page, s) # <<>>}

\* the divs of the page matched by the earliest strategy matching any
FirstStrategyCards(page) ==
  IF MatchingStrategies(page) = {} THEN <<>>
  ELSE FindAll(page, CHOOSE s \in MatchingStrategies(page) :
                       \A t \in MatchingStrategies(page) : s <= t)

\* C12: the events returned are those of the divs matched by the first of the
\* three strategies (data-testid, class holding "event-card", class holding
\* "event") that matches any div, in document order; divs that only a later
\* strategy matches give no event; a page where no strategy matches gives none.
C12_FirstNonEmptyStrategy ==
  ScrapeReturned =>
    LET chosen == SelectSeq(FirstStrategyCards(response.v), CardMaps)
    IN /\ Len(ret.events) = Len(chosen)
       /\ \A i \in 1..Len(chosen) :
            ret.events[i].url = UrlJoin(BaseUrl, HrefOf(chosen[i])).url
       /\ (\A s \in 1..3 : FindAll(response.v, s) = <<>>) => ret.events = <<>>

\* a page without data-testid cards, with one div of class "event-card" and one
\* of class "event", has been parsed into the one event of the former
C12_Witness ==
  /\ ScrapeReturned
  /\ FindAll(response.v, 1) = <<>>
  /\ Len(FindAll(response.v, 2)) = 1
  /\ Len(FindAll(response.v, 3)) = 2
  /\ \A d \in {response.v[i] : i \in 1..Len(response.v)} : CardMaps(d)
  /\ Len(ret.events) = 1

\* C13: the request that is out carries a timeout, and a call waiting for its
\* answer can always go on, also when the server never answers.
C13_EveryRequestTimesOut ==
  pc = "waiting" =>
    /\ Has(GetTimeout(AdapterOf(call.inst)))
    /\ ENABLED Next

\* whether n results can be assigned to n of m source elements, one each, in
\* rising order, every result to an element it matches
EmbedsInOrder(n, m, Match(_, _)) ==
  \E f \in [1..n -> 1..m] :
    /\ \A i, j \in 1..n : i < j => f[i] < f[j]
    /\ \A i \in 1..n : Match(i, f[i])

\* the event is the one this candidate card gives: its link and its title
EventOfCard(e, c) ==
  /\ CardMaps(c)
  /\ e.url = UrlJoin(BaseUrl, HrefOf(c)).url
  /\ e.title = FirstOf(c.h3, FirstOf(c.h2, c.titleCls)).v

\* the event is the one this item of the array gives: its id
EventOfItem(e, it) == ItemMaps(it) /\ e.id = SourceTag \o it.id.v

\* C14: the list returned is an order-preserving subsequence of the source
\* elements, in both adapters: the events can be assigned to distinct candidate
\* cards (items of the array) in document (array) order, so no card or item
\* gives more than one event and no two events are swapped.
C14_OrderPreservingSubsequence ==
  /\ ScrapeReturned =>
       EmbedsInOrder(Len(ret.events), Len(Candidates),
                     LAMBDA i, k : EventOfCard(ret.events[i], Candidates[k]))
  /\ RestConverted /\ ret.st = "returned" =>
       EmbedsInOrder(Len(ret.events), Len(Items),
                     LAMBDA i, k : EventOfItem(ret.events[i], Items[k]))

\* a scrape call has returned two events of two different cards
C14_Witness ==
  /\ ScrapeReturned
  /\ Len(Candidates) = 2
  /\ Len(ret.events) = 2
  /\ ret.events[1].url # ret.events[2].url
  /\ EventOfCard(ret.events[1], Candidates[1])
  /\ ~EventOfCard(ret.events[1], Candidates[2])

====
